---- MODULE Spec2Model ----
(***************************************************************************)
(* Model of the document-structure inference pipeline of sustain_parser:   *)
(* the strategy cascade of parse_pdf / the CLI parse command, the          *)
(* level-stack tree builder, the end-page finalizer and the section        *)
(* flattener.                                                              *)
(*                                                                         *)
(* Text is modelled at character level: a Python str is a sequence of      *)
(* one-character strings.  The non-breaking space U+00A0 is written "NBSP".*)
(* An entry is the tuple <<level, title, page>> the code uses.             *)
(* Objects live in a heap: `nodes` is the sequence of Node objects in      *)
(* creation order, a reference to a Node is its index, the root is 1.      *)
(***************************************************************************)
EXTENDS Integers, Sequences, FiniteSets, TLC

VARIABLES
    caller,          \* "api" (parse_pdf) or "cli" (parse command)
    strategy,        \* the strategy argument
    max_toc_pages,   \* the max_toc_pages argument
    pdf,             \* the document: [toc |-> get_toc() result, pages |-> page texts]
    pc,              \* position in parse_pdf / parse
    pages_text,      \* local pages_text
    doc_pages,       \* local doc_pages
    entries,         \* local entries: Optional list of entries
    used,            \* local used
    calls,           \* strategy functions invoked so far, in order
    nodes,           \* heap of Node objects
    stack,           \* build_tree_from_entries: stack of Node references
    i,               \* build_tree_from_entries: index of the next entry
    finalized,       \* number of finalize_tree applications so far
    sections,        \* result of flatten_sections
    tree_md,         \* result of tree_to_markdown
    outcome          \* "running", "ok", "ValueError", "Exit2"

vars == <<caller, strategy, max_toc_pages, pdf, pc, pages_text, doc_pages, entries,
          used, calls, nodes, stack, i, finalized, sections, tree_md, outcome>>

----------------------------------------------------------------------------
(* Bounds of the model *)

MaxEntries == 3      \* longest entry list handed to build_tree_from_entries
MaxLevel == 2        \* largest entry level
MaxPage == 2         \* largest entry page / document page count

(* An Optional[int] field: None, or an int of any sign.  A page number of   *)
(* -1 or 0 is an int, not None.                                            *)
None == [is_none |-> TRUE, val |-> 0]
SomeInt(n) == [is_none |-> FALSE, val |-> n]

----------------------------------------------------------------------------
(* Generic helpers *)

Max(a, b) == IF a >= b THEN a ELSE b
Min(a, b) == IF a <= b THEN a ELSE b
Last(s) == s[Len(s)]
Front(s) == SubSeq(s, 1, Len(s) - 1)
Range(s) == {s[k] : k \in 1..Len(s)}

(* Python `x or y` for an Optional[int] x and an int y: x when x is neither *)
(* None nor 0                                                               *)
OrInt(x, y) == IF ~x.is_none /\ x.val # 0 THEN x.val ELSE y

(* Optional list: None or a list *)
NoneList == [is_none |-> TRUE, val |-> <<>>]
Some(l) == [is_none |-> FALSE, val |-> l]
(* Python truthiness of an Optional list *)
Truthy(o) == ~o.is_none /\ o.val # <<>>

----------------------------------------------------------------------------
(* Characters and strings *)

NBSP == "NBSP"
UpperChars == <<"A","B","C","D","E","F","G","H","I","J","K","L","M",
                "N","O","P","Q","R","S","T","U","V","W","X","Y","Z">>
LowerChars == <<"a","b","c","d","e","f","g","h","i","j","k","l","m",
                "n","o","p","q","r","s","t","u","v","w","x","y","z">>
DigitChars == <<"0","1","2","3","4","5","6","7","8","9">>

(* Every character of the model in ascending Unicode code point order *)
Alphabet == <<"\t", "\n", " ", "&", "'", "(", ")", ",", "-", ".", "/">>
            \o DigitChars \o <<":", ";">> \o UpperChars \o <<"_">> \o LowerChars
            \o <<"|", NBSP>>

IndexOf(s, c) == CHOOSE k \in 1..Len(s) : s[k] = c
Ord(c) == IndexOf(Alphabet, c)

IsDigit(c) == c \in Range(DigitChars)
IsUpper(c) == c \in Range(UpperChars)
IsLower(c) == c \in Range(LowerChars)
IsAlpha(c) == IsUpper(c) \/ IsLower(c)
IsSpace(c) == c \in {" ", "\t", "\n", NBSP}
IsWord(c)  == IsAlpha(c) \/ IsDigit(c) \/ c = "_"

LowerChar(c) == IF IsUpper(c) THEN LowerChars[IndexOf(UpperChars, c)] ELSE c
UpperChar(c) == IF IsLower(c) THEN UpperChars[IndexOf(LowerChars, c)] ELSE c
(* str.lower() *)
Lower(s) == [k \in 1..Len(s) |-> LowerChar(s[k])]

(* str.lstrip() / str.rstrip() / str.strip() *)
RECURSIVE LStrip(_)
LStrip(s) == IF s # <<>> /\ IsSpace(s[1]) THEN LStrip(Tail(s)) ELSE s
RECURSIVE RStrip(_)
RStrip(s) == IF s # <<>> /\ IsSpace(Last(s)) THEN RStrip(Front(s)) ELSE s
Strip(s) == LStrip(RStrip(s))

(* str(n) for n >= 0 *)
RECURSIVE Str(_)
Str(n) == IF n < 10 THEN <<DigitChars[n + 1]>>
          ELSE Str(n \div 10) \o <<DigitChars[(n % 10) + 1]>>

(* sep.join(parts) *)
RECURSIVE Join(_, _)
Join(parts, sep) ==
    IF parts = <<>> THEN <<>>
    ELSE IF Len(parts) = 1 THEN parts[1]
    ELSE parts[1] \o sep \o Join(Tail(parts), sep)

(* s < t in Python's string order *)
RECURSIVE StrLess(_, _)
StrLess(s, t) ==
    IF t = <<>> THEN FALSE
    ELSE IF s = <<>> THEN TRUE
    ELSE IF s[1] = t[1] THEN StrLess(Tail(s), Tail(t))
    ELSE Ord(s[1]) < Ord(t[1])

----------------------------------------------------------------------------
(* models.py: Node *)

Node(title, level, start_page, end_page) ==
    [title |-> title, level |-> level, start_page |-> start_page,
     end_page |-> end_page, children |-> <<>>]

ROOT == <<"R","O","O","T">>
root == 1

----------------------------------------------------------------------------
(* section_tree.py: build_tree_from_entries, one loop iteration at a time *)

(* PopStack popping only strictly deeper nodes: > in place of >= *)
RECURSIVE PopStackStrict(_, _, _)
PopStackStrict(ns, st, level) ==
    IF st # <<>> /\ ns[Last(st)].level > level
    THEN PopStackStrict(ns, Front(st), level)
    ELSE st

(* while stack and stack[-1].level >= level: stack.pop() *)
RECURSIVE PopStack(_, _, _)
PopStack(ns, st, level) ==
    IF st # <<>> /\ ns[Last(st)].level >= level
    THEN PopStack(ns, Front(st), level)
    ELSE st

(* ParentOf attaching every node to the root *)
ParentOfRoot(st) == root

(* parent = stack[-1] if stack else root *)
ParentOf(st) == IF st # <<>> THEN Last(st) ELSE root

(* BuildIteration putting the node in front of its parent's children *)
BuildIterationPrepend(ns, st, e) ==
    LET node == Node(Strip(e[2]), e[1], SomeInt(e[3]), None)
        id == Len(ns) + 1
        st1 == PopStack(ns, st, e[1])
        parent == ParentOf(st1)
    IN [nodes |-> Append([ns EXCEPT ![parent].children = <<id>> \o @], node),
        stack |-> Append(st1, id)]

(* The heap and the stack after the loop body has run for entry e *)
BuildIteration(ns, st, e) ==
    LET node == Node(Strip(e[2]), e[1], SomeInt(e[3]), None)
        id == Len(ns) + 1
        st1 == PopStack(ns, st, e[1])
        parent == ParentOf(st1)
    IN [nodes |-> Append([ns EXCEPT ![parent].children = Append(@, id)], node),
        stack |-> Append(st1, id)]

(* The whole function, as the fold of the loop body over the entries *)
RECURSIVE BuildFrom(_, _, _)
BuildFrom(ns, st, es) ==
    IF es = <<>> THEN ns
    ELSE LET r == BuildIteration(ns, st, es[1])
         IN BuildFrom(r.nodes, r.stack, Tail(es))

build_tree_from_entries(es) == BuildFrom(<<Node(ROOT, 0, None, None)>>, <<root>>, es)

----------------------------------------------------------------------------
(* section_tree.py: _assign_end_pages, finalize_tree *)

(* EndBeforeSibling ending on the sibling's first page: the - 1 is missing *)
EndAtSiblingStart(child, next) ==
    Max(OrInt(child.start_page, 1),
        OrInt(next.start_page, OrInt(child.start_page, 1)))

(* EndBeforeSibling reading the sibling's end_page when it is already set *)
EndBeforeSiblingEnd(child, next) ==
    Max(OrInt(child.start_page, 1),
        OrInt(next.end_page, OrInt(next.start_page, OrInt(child.start_page, 1))) - 1)

(* end_page of a child that has a following sibling *)
EndBeforeSibling(child, next) ==
    Max(OrInt(child.start_page, 1),
        OrInt(next.start_page, OrInt(child.start_page, 1)) - 1)

(* EndOfLastChild ending every last child with the document *)
EndOfLastChildDocEnd(node, doc_page_count) == doc_page_count

(* end_page of a last child *)
EndOfLastChild(node, doc_page_count) ==
    IF ~node.end_page.is_none THEN node.end_page.val ELSE doc_page_count

RECURSIVE _assign_end_pages(_, _, _)
RECURSIVE AssignChildren(_, _, _, _)
(* the for loop of _assign_end_pages from child index idx on *)
AssignChildren(ns, id, idx, doc_page_count) ==
    LET children == ns[id].children
    IN IF idx > Len(children) THEN ns
       ELSE LET child == children[idx]
                e == IF idx + 1 <= Len(children)
                     THEN EndBeforeSibling(ns[child], ns[children[idx + 1]])
                     ELSE EndOfLastChild(ns[id], doc_page_count)
                ns1 == [ns EXCEPT ![child].end_page = SomeInt(e)]
                ns2 == _assign_end_pages(ns1, child, doc_page_count)
            IN AssignChildren(ns2, id, idx + 1, doc_page_count)

_assign_end_pages(ns, id, doc_page_count) == AssignChildren(ns, id, 1, doc_page_count)

(* finalize_tree lifting every start_page below 1 to 1 as well *)
finalize_treeClampStarts(ns, doc_page_count) ==
    _assign_end_pages([k \in 1..Len(ns) |->
                          IF k = root
                          THEN [ns[k] EXCEPT !.start_page = SomeInt(1),
                                             !.end_page = SomeInt(doc_page_count)]
                          ELSE [ns[k] EXCEPT !.start_page = SomeInt(OrInt(@, 1))]],
                      root, doc_page_count)

finalize_tree(ns, doc_page_count) ==
    _assign_end_pages([ns EXCEPT ![root].start_page = SomeInt(1),
                                 ![root].end_page = SomeInt(doc_page_count)],
                      root, doc_page_count)

----------------------------------------------------------------------------
(* section_tree.py: flatten_sections *)

(* pages_text[sp - 1: ep] for 1 <= sp <= ep *)
PageSlice(pages, sp, ep) == SubSeq(pages, sp, Min(ep, Len(pages)))

(* The string hashed into the section id; sha1(...)[:12] is a function of it *)
SectionId(child_path, sp, ep) ==
    Join(child_path, <<" ", ">", " ">>) \o <<"|">> \o Str(sp) \o <<"|">> \o Str(ep)

(* MakeSection hashing the section text into the id as well *)
MakeSectionHashText(child, child_path, pages) ==
    LET sp == Max(1, OrInt(child.start_page, 1))
        ep == Max(sp, OrInt(child.end_page, sp))
        text == Strip(Join(PageSlice(pages, sp, ep), <<"\n">>))
    IN [id |-> SectionId(Append(child_path, text), sp, ep),
        title |-> child.title,
        level |-> child.level,
        start_page |-> sp,
        end_page |-> ep,
        text |-> text,
        path |-> child_path]

MakeSection(child, child_path, pages) ==
    LET sp == Max(1, OrInt(child.start_page, 1))
        ep == Max(sp, OrInt(child.end_page, sp))
    IN [id |-> SectionId(child_path, sp, ep),
        title |-> child.title,
        level |-> child.level,
        start_page |-> sp,
        end_page |-> ep,
        text |-> Strip(Join(PageSlice(pages, sp, ep), <<"\n">>)),
        path |-> child_path]

(* Walk without the recursive call: the children of the root only *)
RECURSIVE WalkTopLevel(_, _, _, _, _)
WalkTopLevel(ns, id, path, idx, pages) ==
    LET children == ns[id].children
    IN IF idx > Len(children) THEN <<>>
       ELSE LET child == ns[children[idx]]
                child_path == Append(path, child.title)
            IN <<MakeSection(child, child_path, pages)>>
               \o WalkTopLevel(ns, id, path, idx + 1, pages)

RECURSIVE Walk(_, _, _, _, _)
(* walk(node, path) from child index idx on: the sections appended *)
Walk(ns, id, path, idx, pages) ==
    LET children == ns[id].children
    IN IF idx > Len(children) THEN <<>>
       ELSE LET child == ns[children[idx]]
                child_path == Append(path, child.title)
            IN <<MakeSection(child, child_path, pages)>>
               \o Walk(ns, children[idx], child_path, 1, pages)
               \o Walk(ns, id, path, idx + 1, pages)

flatten_sections(ns, pages) == Walk(ns, root, <<>>, 1, pages)

----------------------------------------------------------------------------
(* section_tree.py: tree_to_markdown.  A rendered line                     *)
(*   "  " * indent + "- " + title + "  *(pp. sp-ep)*"                      *)
(* is kept as the record of what it prints.                                *)

RECURSIVE Rec(_, _, _, _)
Rec(ns, id, indent, idx) ==
    LET children == ns[id].children
    IN IF idx > Len(children) THEN <<>>
       ELSE LET ch == ns[children[idx]]
            IN <<[indent |-> indent, title |-> ch.title,
                  sp |-> ch.start_page, ep |-> ch.end_page]>>
               \o Rec(ns, children[idx], indent + 1, 1)
               \o Rec(ns, id, indent, idx + 1)

tree_to_markdown(ns) == Rec(ns, root, 0, 1)

----------------------------------------------------------------------------
(* More string helpers used by the detectors *)

(* sub in s *)
Contains(s, sub) ==
    \E k \in 1..(Len(s) - Len(sub) + 1) : SubSeq(s, k, k + Len(sub) - 1) = sub

(* str.splitlines(), "\n" being the only line boundary of the alphabet *)
RECURSIVE SplitLines(_)
SplitLines(s) ==
    IF s = <<>> THEN <<>>
    ELSE IF "\n" \notin Range(s) THEN <<s>>
    ELSE LET k == CHOOSE j \in 1..Len(s) : s[j] = "\n" /\ \A h \in 1..(j - 1) : s[h] # "\n"
         IN <<SubSeq(s, 1, k - 1)>> \o SplitLines(SubSeq(s, k + 1, Len(s)))

(* [ln.strip() for ln in txt.splitlines()] *)
StrippedLines(txt) == LET ls == SplitLines(txt) IN [k \in 1..Len(ls) |-> Strip(ls[k])]

(* str.rstrip(chars) *)
RECURSIVE RStripChars(_, _)
RStripChars(s, chars) ==
    IF s # <<>> /\ Last(s) \in chars THEN RStripChars(Front(s), chars) ELSE s

(* length of the longest suffix of s made of characters satisfying the test *)
RECURSIVE DigitSuffixLen(_)
DigitSuffixLen(s) ==
    IF s # <<>> /\ IsDigit(Last(s)) THEN 1 + DigitSuffixLen(Front(s)) ELSE 0
RECURSIVE SpaceSuffixLen(_)
SpaceSuffixLen(s) ==
    IF s # <<>> /\ IsSpace(Last(s)) THEN 1 + SpaceSuffixLen(Front(s)) ELSE 0
RECURSIVE DotSuffixLen(_)
DotSuffixLen(s) ==
    IF s # <<>> /\ Last(s) = "." THEN 1 + DotSuffixLen(Front(s)) ELSE 0

(* int(s) for a string of digits *)
RECURSIVE ToInt(_)
ToInt(s) == IF s = <<>> THEN 0
            ELSE 10 * ToInt(Front(s)) + (IndexOf(DigitChars, Last(s)) - 1)

(* s.count(c) *)
RECURSIVE Count(_, _)
Count(s, c) == IF s = <<>> THEN 0
               ELSE (IF s[1] = c THEN 1 ELSE 0) + Count(Tail(s), c)

(* re.sub(r"\s+", " ", s) *)
RECURSIVE CollapseSpaces(_)
CollapseSpaces(s) ==
    IF s = <<>> THEN <<>>
    ELSE IF IsSpace(s[1])
         THEN <<" ">> \o CollapseSpaces(LStrip(s))
         ELSE <<s[1]>> \o CollapseSpaces(Tail(s))

(* t matches \d+(\.\d+){0,g} in full *)
IsNumbering(t, g) ==
    /\ t # <<>>
    /\ \A k \in 1..Len(t) : IsDigit(t[k]) \/ t[k] = "."
    /\ IsDigit(t[1]) /\ IsDigit(Last(t))
    /\ \A k \in 1..(Len(t) - 1) : ~(t[k] = "." /\ t[k + 1] = ".")
    /\ Count(t, ".") <= g

(* sorted(l, key=lambda x: (x[2], x[0], x[1])) on entries <<level, title, page>> *)
KeyLess(a, b) ==
    \/ a[3] < b[3]
    \/ a[3] = b[3] /\ a[1] < b[1]
    \/ a[3] = b[3] /\ a[1] = b[1] /\ StrLess(a[2], b[2])

RECURSIVE Insert(_, _)
(* stable insertion of e after every element whose key is not greater *)
Insert(l, e) ==
    IF l = <<>> THEN <<e>>
    ELSE IF KeyLess(e, l[1]) THEN <<e>> \o l
    ELSE <<l[1]>> \o Insert(Tail(l), e)

RECURSIVE SortEntries(_)
SortEntries(l) == IF l = <<>> THEN <<>> ELSE Insert(SortEntries(Front(l)), Last(l))

(* The seen-set test and append shared by both detectors *)
EntryKey(e) == <<e[1], Lower(e[2]), e[3]>>
AddUnseen(acc, e) ==
    IF \E k \in 1..Len(acc) : EntryKey(acc[k]) = EntryKey(e) THEN acc ELSE Append(acc, e)

----------------------------------------------------------------------------
(* pdf_extract.py *)

(* re.sub(U+00A0, " ", txt) *)
ReplaceNbsp(txt) == [k \in 1..Len(txt) |-> IF txt[k] = NBSP THEN " " ELSE txt[k]]

(* re.sub(r"[ \t]+\n", "\n", txt) *)
RECURSIVE DropBlanksBeforeNewline(_)
DropBlanksBeforeNewline(txt) ==
    IF txt = <<>> THEN <<>>
    ELSE IF txt[1] \in {" ", "\t"}
         THEN LET k == CHOOSE j \in 1..(Len(txt) + 1) :
                          /\ \A h \in 1..(j - 1) : txt[h] \in {" ", "\t"}
                          /\ (j = Len(txt) + 1 \/ txt[j] \notin {" ", "\t"})
              IN IF k <= Len(txt) /\ txt[k] = "\n"
                 THEN DropBlanksBeforeNewline(SubSeq(txt, k, Len(txt)))
                 ELSE SubSeq(txt, 1, k - 1)
                      \o DropBlanksBeforeNewline(SubSeq(txt, k, Len(txt)))
         ELSE <<txt[1]>> \o DropBlanksBeforeNewline(Tail(txt))

extract_pages_text(doc) ==
    [k \in 1..Len(doc.pages) |-> DropBlanksBeforeNewline(ReplaceNbsp(doc.pages[k]))]

extract_outline(doc) ==
    IF doc.toc = <<>> THEN NoneList
    ELSE Some([k \in 1..Len(doc.toc) |->
                 <<doc.toc[k][1], Strip(doc.toc[k][2]), doc.toc[k][3]>>])

----------------------------------------------------------------------------
(* toc_detect.py *)

TOC_KEYWORDS == << <<"t","a","b","l","e"," ","o","f"," ","c","o","n","t","e","n","t","s">>,
                   <<"c","o","n","t","e","n","t","s">> >>

(* re.search(r"\b(\d{1,4})\s*$", s): 0 when there is no match, else the       *)
(* 1-based index of the first digit of the match.  The digits must reach the  *)
(* trailing whitespace, so they are the whole trailing digit run, which must  *)
(* have 1 to 4 digits and start at a word boundary.                           *)
PageMatchStart(s) ==
    LET t == RStrip(s)
        k == DigitSuffixLen(t)
        start == Len(t) - k + 1
    IN IF k >= 1 /\ k <= 4 /\ (start = 1 \/ ~IsWord(t[start - 1])) THEN start ELSE 0

PageMatchDigits(s) ==
    LET t == RStrip(s) IN SubSeq(t, PageMatchStart(s), Len(t))

(* re.search(r"\s{3,}\d{1,4}\s*$", s) *)
WideGapBeforePage(s) ==
    LET t == RStrip(s)
        k == DigitSuffixLen(t)
    IN k >= 1 /\ k <= 4 /\ SpaceSuffixLen(SubSeq(t, 1, Len(t) - k)) >= 3

(* s[from..] matches [\.\)]?\s+ followed by at least `need` more characters,  *)
(* the first of them not whitespace when nonspace is asked for                *)
AfterNumber(s, from, nonspace) ==
    \E opt \in {0, 1} :
        /\ opt = 1 => (from <= Len(s) /\ s[from] \in {".", ")"})
        /\ \E sp \in 1..Len(s) :
              /\ from + opt + sp - 1 <= Len(s)
              /\ \A h \in (from + opt)..(from + opt + sp - 1) : IsSpace(s[h])
              /\ nonspace => (from + opt + sp <= Len(s) /\ ~IsSpace(s[from + opt + sp]))

(* ends q of a prefix s[1..q] matching (\d+(\.\d+){0,g}|[A-Z]) *)
NumberEnds(s, g) ==
    {q \in 1..Len(s) : IsNumbering(SubSeq(s, 1, q), g) \/ (q = 1 /\ IsUpper(s[1]))}

(* re.match(r"^(\d+(\.\d+){0,4}|[A-Z])[\.\)]?\s+\S+", s) *)
LeadingNumberLine(s) == \E q \in NumberEnds(s, 4) : AfterNumber(s, q + 1, TRUE)

_looks_like_toc_line(line) ==
    LET s == Strip(line)
    IN /\ Len(s) >= 6
       /\ PageMatchStart(s) # 0
       /\ \E k \in 1..Len(s) : IsAlpha(s[k])
       /\ \/ Contains(s, <<".", ".", ".">>)
          \/ WideGapBeforePage(s)
          \/ LeadingNumberLine(s)

find_toc_pages(pages, max_pages) ==
    LET n == Min(Len(pages), max_pages)
        hit(k) == \E w \in 1..Len(TOC_KEYWORDS) : Contains(Lower(pages[k]), TOC_KEYWORDS[w])
        F[k \in 0..Max(n, 0)] ==
            IF k = 0 THEN <<>>
            ELSE IF hit(k) THEN Append(F[k - 1], k - 1) ELSE F[k - 1]
    IN F[Max(n, 0)]

(* title_part = ln[: m.start()].rstrip(". ").strip();                         *)
(* title_part = re.sub(r"\.{2,}$", "", title_part).strip()                    *)
TitlePart(ln) ==
    LET a == Strip(RStripChars(SubSeq(ln, 1, PageMatchStart(ln) - 1), {".", " "}))
        d == DotSuffixLen(a)
        b == IF d >= 2 THEN SubSeq(a, 1, Len(a) - d) ELSE a
    IN Strip(b)

(* re.match(r"^(\d+(?:\.\d+){0,6}|[A-Z])[\.\)]?\s+( .* )$", title_part):      *)
(* the end of group 1, 0 when there is no match                               *)
NumberSplit(tp) ==
    LET ok == {q \in NumberEnds(tp, 6) : AfterNumber(tp, q + 1, FALSE)}
    IN IF ok = {} THEN 0 ELSE CHOOSE q \in ok : \A r \in ok : r <= q

(* the entry a qualifying line yields *)
TocEntry(ln) ==
    LET page == ToInt(PageMatchDigits(ln))
        tp == TitlePart(ln)
        q == NumberSplit(tp)
        num == SubSeq(tp, 1, q)
        rest == IF q < Len(tp) /\ tp[q + 1] \in {".", ")"}
                THEN SubSeq(tp, q + 2, Len(tp)) ELSE SubSeq(tp, q + 1, Len(tp))
    IN IF q # 0
       THEN <<IF IsDigit(num[1]) THEN Count(num, ".") + 1 ELSE 1, Strip(rest), page>>
       ELSE <<1, tp, page>>

RECURSIVE TocLines(_, _)
TocLines(lines, acc) ==
    IF lines = <<>> THEN acc
    ELSE IF ~_looks_like_toc_line(lines[1]) \/ PageMatchStart(lines[1]) = 0
         THEN TocLines(Tail(lines), acc)
         ELSE TocLines(Tail(lines), AddUnseen(acc, TocEntry(lines[1])))

RECURSIVE TocPages(_, _, _)
TocPages(pages, toc_pages, acc) ==
    IF toc_pages = <<>> THEN acc
    ELSE TocPages(pages, Tail(toc_pages),
                  TocLines(StrippedLines(pages[toc_pages[1] + 1]), acc))

parse_toc_entries_from_pages(pages, toc_pages) == SortEntries(TocPages(pages, toc_pages, <<>>))

----------------------------------------------------------------------------
(* segment.py *)

(* [A-Za-z0-9&,\-:'()/ ] (the typographic apostrophe is not in the alphabet) *)
TitleClass(c) == IsAlpha(c) \/ IsDigit(c) \/ c \in {"&", ",", "-", ":", "'", "(", ")", "/", " "}

(* t matches [A-Z][A-Za-z0-9&,\-:'()/ ]+ in full *)
IsTitleText(t) ==
    Len(t) >= 2 /\ IsUpper(t[1]) /\ \A k \in 2..Len(t) : TitleClass(t[k])

(* re.match(r"^(\d+(?:\.\d+){0,5})\s+([A-Z][...]+)$", s): end of group 1, or 0 *)
NumberedHeadingSplit(s) ==
    LET ok == {q \in 1..Len(s) :
                  /\ IsNumbering(SubSeq(s, 1, q), 5)
                  /\ \E sp \in 1..Len(s) :
                        /\ q + sp < Len(s)
                        /\ \A h \in (q + 1)..(q + sp) : IsSpace(s[h])
                        /\ IsTitleText(SubSeq(s, q + sp + 1, Len(s)))}
    IN IF ok = {} THEN 0 ELSE CHOOSE q \in ok : \A r \in ok : r <= q

(* str.isupper(): some cased character and no lowercase one *)
IsUpperStr(s) ==
    (\E k \in 1..Len(s) : IsUpper(s[k])) /\ (\A k \in 1..Len(s) : ~IsLower(s[k]))

(* str.title() *)
TitleCase(s) ==
    [k \in 1..Len(s) |->
        IF ~IsAlpha(s[k]) THEN s[k]
        ELSE IF k = 1 \/ ~IsAlpha(s[k - 1]) THEN UpperChar(s[k]) ELSE LowerChar(s[k])]

(* len(s.split()) *)
WordCount(s) ==
    Cardinality({k \in 1..Len(s) : ~IsSpace(s[k]) /\ (k = 1 \/ IsSpace(s[k - 1]))})

(* re.match(r"^(figure|table)\s+\d+", s.lower()) *)
IsCaption(s) ==
    LET low == Lower(s)
    IN \E w \in {<<"f","i","g","u","r","e">>, <<"t","a","b","l","e">>} :
          /\ SubSeq(low, 1, Len(w)) = w
          /\ \E sp \in 1..Len(low) :
                /\ Len(w) + sp + 1 <= Len(low)
                /\ \A h \in (Len(w) + 1)..(Len(w) + sp) : IsSpace(low[h])
                /\ IsDigit(low[Len(w) + sp + 1])

(* The heading a line yields on page page_no: <<>> or a one-entry list *)
HeadingOfLine(ln, page_no) ==
    LET s == Strip(CollapseSpaces(ln))
        q == NumberedHeadingSplit(s)
    IN IF Len(s) < 6 \/ Len(s) > 120 THEN <<>>
       ELSE IF q # 0
       THEN << <<Count(SubSeq(s, 1, q), ".") + 1, Strip(SubSeq(s, q + 1, Len(s))), page_no>> >>
       ELSE IF IsUpperStr(s) /\ 6 <= Len(s) /\ Len(s) <= 60
               /\ \E k \in 1..Len(s) : IsUpper(s[k])
       THEN << <<1, TitleCase(s), page_no>> >>
       ELSE IF Last(s) = "." THEN <<>>
       ELSE IF WordCount(s) >= 2 /\ IsTitleText(s)
               /\ ~(Count(s, ",") + Count(s, ";") + Count(s, ":") > 2)
               /\ ~IsCaption(s)
       THEN << <<1, s, page_no>> >>
       ELSE <<>>

RECURSIVE HeadingLines(_, _, _)
HeadingLines(lines, page_no, acc) ==
    IF lines = <<>> THEN acc
    ELSE LET h == HeadingOfLine(lines[1], page_no)
         IN HeadingLines(Tail(lines), page_no,
                         IF h = <<>> THEN acc ELSE AddUnseen(acc, h[1]))

RECURSIVE HeadingPages(_, _, _)
HeadingPages(pages, k, acc) ==
    IF k > Len(pages) THEN acc
    ELSE HeadingPages(pages, k + 1, HeadingLines(StrippedLines(pages[k]), k, acc))

detect_headings(pages) == SortEntries(HeadingPages(pages, 1, <<>>))

----------------------------------------------------------------------------
(* The documents the pipeline is run on.                                   *)
(*   PageToc     "Contents\nIntro .... 3\n1.1 Scope 1"                     *)
(*   PageMarker  "contents."                                               *)
(*   PageHead    "CLIMATE RISK \nsome text."                               *)
(*   PageBody    "some<U+00A0>text."                                       *)

MaxDocPages == 2     \* most pages of a document

PageToc == <<"C","o","n","t","e","n","t","s","\n","I","n","t","r","o"," ",".",".",".","."," ","3","\n","1",".","1"," ","S","c","o","p","e"," ","1">>
PageMarker == <<"c","o","n","t","e","n","t","s",".">>
PageHead == <<"C","L","I","M","A","T","E"," ","R","I","S","K"," ","\n","s","o","m","e"," ","t","e","x","t",".">>
PageBody == <<"s","o","m","e",NBSP,"t","e","x","t",".">>

PageCatalogue == {PageToc, PageMarker, PageHead, PageBody}

TitleIntro == <<"I","n","t","r","o"," ">>
TitleScope == <<"S","c","o","p","e">>
TitleAnnex == <<"A","n","n","e","x">>

(* what doc.get_toc(simple=True) returns: no outline, a one-entry outline,  *)
(* an outline whose second chapter starts on the page of a subsection, and  *)
(* an outline whose first bookmark points behind its second                 *)
OutlineCatalogue ==
    { <<>>,
      << <<1, TitleIntro, 1>> >>,
      << <<1, TitleIntro, 1>>, <<2, TitleScope, 2>>, <<1, TitleAnnex, 2>> >>,
      << <<1, TitleAnnex, 2>>, <<1, TitleIntro, 1>> >> }

PageLists == UNION {[1..n -> PageCatalogue] : n \in 0..MaxDocPages}

PDFs == {[toc |-> t, pages |-> p] : t \in OutlineCatalogue, p \in PageLists}

Strategies == {"auto", "outline", "toc", "headings"}
(* the strategy argument is an unchecked str: one value outside the set *)
StrategyInputs == Strategies \cup {"fast"}

(* default of max_toc_pages: parse_pdf's signature, the CLI's option *)
DefaultMaxTocPagesApi == 10
DefaultMaxTocPagesCli == 8
DefaultMaxTocPages(c) == IF c = "api" THEN DefaultMaxTocPagesApi ELSE DefaultMaxTocPagesCli

(* initial value of `used`: "none" in parse_pdf, None in the CLI *)
UsedInit(c) == IF c = "api" THEN "none" ELSE "None"

----------------------------------------------------------------------------
(* The page texts the two text detectors are applied to when they are      *)
(* checked on their own: up to MaxLines lines, joined by "\n", out of       *)
(*   LineContents  "Contents"                                              *)
(*   LineZero      "Intro .... 0"                                          *)
(*   LineScope     "1.1 Scope 12"                                          *)
(*   LineCaps      "CLIMATE RISK"                                          *)
(*   LineText      "some text."                                            *)

MaxLines == 3        \* most lines of a page

LineContents == <<"C","o","n","t","e","n","t","s">>
LineZero == <<"I","n","t","r","o"," ",".",".",".","."," ","0">>
LineScope == <<"1",".","1"," ","S","c","o","p","e"," ","1","2">>
LineCaps == <<"C","L","I","M","A","T","E"," ","R","I","S","K">>
LineText == <<"s","o","m","e"," ","t","e","x","t",".">>

LineCatalogue == {LineContents, LineZero, LineScope, LineCaps, LineText}

LinePages ==
    {Join(ls, <<"\n">>) : ls \in UNION {[1..n -> LineCatalogue] : n \in 0..MaxLines}}

----------------------------------------------------------------------------
(* Documents long enough to outrun the window of find_toc_pages: every page *)
(* is either PageToc, which carries a marker, or PageBody, which does not,  *)
(* and at most two pages carry one                                          *)

MaxLongDoc == 9      \* most pages of such a document

LongPageLists ==
    UNION {{p \in [1..n -> {PageToc, PageBody}] :
               Cardinality({k \in 1..n : p[k] = PageToc}) <= 2} : n \in 0..MaxLongDoc}

----------------------------------------------------------------------------
(* The inputs build_tree_from_entries, finalize_tree and flatten_sections  *)
(* are applied to when they are checked on their own.                      *)

(* Entry titles by position: all equal, ascending or descending in string   *)
(* order; every second title carries whitespace for title.strip() to remove *)
TitleSchemes == {"same", "up", "down"}
TitleAt(scheme, k, n) ==
    LET j == IF scheme = "same" THEN 1 ELSE IF scheme = "up" THEN k ELSE n + 1 - k
    IN IF j % 2 = 0 THEN <<UpperChars[j], " ">> ELSE <<UpperChars[j]>>

LevelPageLists ==
    UNION {[1..n -> (1..MaxLevel) \X (0..MaxPage)] : n \in 0..MaxEntries}
EntriesOf(lp, scheme) ==
    [k \in 1..Len(lp) |-> <<lp[k][1], TitleAt(scheme, k, Len(lp)), lp[k][2]>>]
EntryLists == {EntriesOf(lp, sc) : lp \in LevelPageLists, sc \in TitleSchemes}

(* A report of two chapters, the first with two subsections, and its page   *)
(* count: (1, "Intro", 1), (2, "Sub A", 2), (2, "Sub B", 4),                *)
(* (1, "Conclusion", 6) in a document of 8 pages                            *)
Scenario ==
    [entries |->
         << <<1, <<"I","n","t","r","o">>, 1>>,
            <<2, <<"S","u","b"," ","A">>, 2>>,
            <<2, <<"S","u","b"," ","B">>, 4>>,
            <<1, <<"C","o","n","c","l","u","s","i","o","n">>, 6>> >>,
     doc_page_count |-> 8]

(* Entry lists of bookmarks without a destination, for which PyMuPDF's      *)
(* get_toc reports page -1, next to bookmarks of page 1                     *)
UnresolvedLists ==
    {EntriesOf(lp, "up") :
        lp \in UNION {[1..n -> (1..MaxLevel) \X {-1, 1}] : n \in 1..2}}

(* the entry lists and page counts the tree functions are applied to: a     *)
(* document of no page, of one page, of as many pages as the largest entry  *)
(* page, and of one page more                                               *)
TreePageCounts == {0, 1, MaxPage, MaxPage + 1}
TreeInputs ==
    {<<es, n>> : es \in EntryLists \cup UnresolvedLists, n \in TreePageCounts}
        \cup {<<Scenario.entries, Scenario.doc_page_count>>}

(* page k of a document of n pages: "p" followed by str(k) *)
SamplePages(n) == [k \in 1..n |-> <<"p">> \o Str(k)]

----------------------------------------------------------------------------
(* parse_pdf (api.py) and parse (cli.py).  The CLI's console output, its    *)
(* file-exists test and the export writers do not touch the state modelled. *)

Init ==
    /\ caller \in {"api", "cli"}
    /\ strategy \in StrategyInputs
    /\ max_toc_pages \in {1, DefaultMaxTocPages(caller)}
    /\ pdf \in PDFs
    /\ pc = "start"
    /\ pages_text = <<>>
    /\ doc_pages = 0
    /\ entries = NoneList
    /\ used = UsedInit(caller)
    /\ calls = <<>>
    /\ nodes = <<>>
    /\ stack = <<>>
    /\ i = 0
    /\ finalized = 0
    /\ sections = NoneList
    /\ tree_md = NoneList
    /\ outcome = "running"

(* pages_text = extract_pages_text(pdf_path); doc_pages = len(pages_text);  *)
(* entries = None; used = "none"                                            *)
ExtractPages ==
    /\ pc = "start"
    /\ pages_text' = extract_pages_text(pdf)
    /\ doc_pages' = Len(pages_text')
    /\ entries' = NoneList
    /\ used' = UsedInit(caller)
    /\ pc' = "outline"
    /\ UNCHANGED <<caller, strategy, max_toc_pages, pdf, calls, nodes, stack, i,
                   finalized, sections, tree_md, outcome>>

(* if strategy in ("auto", "outline"): ... *)
TryOutline ==
    /\ pc = "outline"
    /\ IF strategy \in {"auto", "outline"}
       THEN LET toc == extract_outline(pdf)
            IN /\ calls' = Append(calls, "extract_outline")
               /\ IF Truthy(toc)
                  THEN entries' = toc /\ used' = "outline"
                  ELSE UNCHANGED <<entries, used>>
       ELSE UNCHANGED <<calls, entries, used>>
    /\ pc' = "toc"
    /\ UNCHANGED <<caller, strategy, max_toc_pages, pdf, pages_text, doc_pages, nodes,
                   stack, i, finalized, sections, tree_md, outcome>>

(* TryToc without the `entries is None` test *)
TryTocUnguarded ==
    /\ pc = "toc"
    /\ IF strategy \in {"auto", "toc"}
       THEN LET toc_pages == find_toc_pages(pages_text, max_toc_pages)
                toc_entries == parse_toc_entries_from_pages(pages_text, toc_pages)
            IN IF toc_pages # <<>>
               THEN /\ calls' = calls \o <<"find_toc_pages", "parse_toc_entries_from_pages">>
                    /\ IF toc_entries # <<>>
                       THEN entries' = Some(toc_entries) /\ used' = "toc"
                       ELSE UNCHANGED <<entries, used>>
               ELSE /\ calls' = Append(calls, "find_toc_pages")
                    /\ UNCHANGED <<entries, used>>
       ELSE UNCHANGED <<calls, entries, used>>
    /\ pc' = "headings"
    /\ UNCHANGED <<caller, strategy, max_toc_pages, pdf, pages_text, doc_pages, nodes,
                   stack, i, finalized, sections, tree_md, outcome>>

(* if entries is None and strategy in ("auto", "toc"): ... *)
TryToc ==
    /\ pc = "toc"
    /\ IF entries.is_none /\ strategy \in {"auto", "toc"}
       THEN LET toc_pages == find_toc_pages(pages_text, max_toc_pages)
                toc_entries == parse_toc_entries_from_pages(pages_text, toc_pages)
            IN IF toc_pages # <<>>
               THEN /\ calls' = calls \o <<"find_toc_pages", "parse_toc_entries_from_pages">>
                    /\ IF toc_entries # <<>>
                       THEN entries' = Some(toc_entries) /\ used' = "toc"
                       ELSE UNCHANGED <<entries, used>>
               ELSE /\ calls' = Append(calls, "find_toc_pages")
                    /\ UNCHANGED <<entries, used>>
       ELSE UNCHANGED <<calls, entries, used>>
    /\ pc' = "headings"
    /\ UNCHANGED <<caller, strategy, max_toc_pages, pdf, pages_text, doc_pages, nodes,
                   stack, i, finalized, sections, tree_md, outcome>>

(* TryHeadings falling back to headings whatever the strategy *)
TryHeadingsAnyStrategy ==
    /\ pc = "headings"
    /\ IF entries.is_none
       THEN LET headings == detect_headings(pages_text)
            IN /\ calls' = Append(calls, "detect_headings")
               /\ IF headings # <<>>
                  THEN entries' = Some(headings) /\ used' = "headings"
                  ELSE UNCHANGED <<entries, used>>
       ELSE UNCHANGED <<calls, entries, used>>
    /\ pc' = "check"
    /\ UNCHANGED <<caller, strategy, max_toc_pages, pdf, pages_text, doc_pages, nodes,
                   stack, i, finalized, sections, tree_md, outcome>>

(* if entries is None and strategy in ("auto", "headings"): ... *)
TryHeadings ==
    /\ pc = "headings"
    /\ IF entries.is_none /\ strategy \in {"auto", "headings"}
       THEN LET headings == detect_headings(pages_text)
            IN /\ calls' = Append(calls, "detect_headings")
               /\ IF headings # <<>>
                  THEN entries' = Some(headings) /\ used' = "headings"
                  ELSE UNCHANGED <<entries, used>>
       ELSE UNCHANGED <<calls, entries, used>>
    /\ pc' = "check"
    /\ UNCHANGED <<caller, strategy, max_toc_pages, pdf, pages_text, doc_pages, nodes,
                   stack, i, finalized, sections, tree_md, outcome>>

(* CheckEntries without the raise: an absent list is built as an empty one *)
CheckEntriesNoRaise ==
    /\ pc = "check"
    /\ entries' = IF Truthy(entries) THEN entries ELSE Some(<<>>)
    /\ pc' = "build"
    /\ UNCHANGED <<caller, strategy, max_toc_pages, pdf, pages_text, doc_pages,
                   used, calls, nodes, stack, i, finalized, sections, tree_md, outcome>>

(* if not entries: raise ValueError(...) / raise typer.Exit(code=2) *)
CheckEntries ==
    /\ pc = "check"
    /\ IF ~Truthy(entries)
       THEN /\ outcome' = IF caller = "api" THEN "ValueError" ELSE "Exit2"
            /\ pc' = "failed"
       ELSE /\ pc' = "build"
            /\ UNCHANGED outcome
    /\ UNCHANGED <<caller, strategy, max_toc_pages, pdf, pages_text, doc_pages, entries,
                   used, calls, nodes, stack, i, finalized, sections, tree_md>>

(* build_tree_from_entries: root = Node("ROOT", 0, None, None); stack = [root] *)
BuildStart ==
    /\ pc = "build"
    /\ nodes' = <<Node(ROOT, 0, None, None)>>
    /\ stack' = <<root>>
    /\ i' = 1
    /\ pc' = IF entries.val = <<>> THEN "finalize" ELSE "loop"
    /\ UNCHANGED <<caller, strategy, max_toc_pages, pdf, pages_text, doc_pages, entries,
                   used, calls, finalized, sections, tree_md, outcome>>

(* build_tree_from_entries: one iteration of the for loop *)
BuildStep ==
    /\ pc = "loop"
    /\ LET r == BuildIteration(nodes, stack, entries.val[i])
       IN nodes' = r.nodes /\ stack' = r.stack
    /\ i' = i + 1
    /\ pc' = IF i = Len(entries.val) THEN "finalize" ELSE "loop"
    /\ UNCHANGED <<caller, strategy, max_toc_pages, pdf, pages_text, doc_pages, entries,
                   used, calls, finalized, sections, tree_md, outcome>>

(* root = finalize_tree(root, doc_pages) *)
Finalize ==
    /\ pc = "finalize"
    /\ nodes' = finalize_tree(nodes, doc_pages)
    /\ finalized' = 1
    /\ pc' = "flatten"
    /\ UNCHANGED <<caller, strategy, max_toc_pages, pdf, pages_text, doc_pages, entries,
                   used, calls, stack, i, sections, tree_md, outcome>>

(* finalize_tree applied once more to the finalized tree *)
FinalizeAgain ==
    /\ pc = "flatten"
    /\ finalized = 1
    /\ nodes' = finalize_tree(nodes, doc_pages)
    /\ finalized' = 2
    /\ UNCHANGED <<caller, strategy, max_toc_pages, pdf, pc, pages_text, doc_pages,
                   entries, used, calls, stack, i, sections, tree_md, outcome>>

(* sections = flatten_sections(root, pages_text) *)
Flatten ==
    /\ pc = "flatten"
    /\ sections' = Some(flatten_sections(nodes, pages_text))
    /\ pc' = "markdown"
    /\ UNCHANGED <<caller, strategy, max_toc_pages, pdf, pages_text, doc_pages, entries,
                   used, calls, nodes, stack, i, finalized, tree_md, outcome>>

(* md = tree_to_markdown(root); return ParseResult(...) *)
Markdown ==
    /\ pc = "markdown"
    /\ tree_md' = Some(tree_to_markdown(nodes))
    /\ outcome' = "ok"
    /\ pc' = "done"
    /\ UNCHANGED <<caller, strategy, max_toc_pages, pdf, pages_text, doc_pages, entries,
                   used, calls, nodes, stack, i, finalized, sections>>

Next ==
    \/ ExtractPages
    \/ TryOutline
    \/ TryToc
    \/ TryHeadings
    \/ CheckEntries
    \/ BuildStart
    \/ BuildStep
    \/ Finalize
    \/ Flatten
    \/ Markdown

Spec == Init /\ [][Next]_vars

(* The tree functions on their own: any entry list, any page count *)
InitTree ==
    /\ caller = "api"
    /\ strategy = "outline"
    /\ max_toc_pages = DefaultMaxTocPagesApi
    /\ pdf = [toc |-> <<>>, pages |-> <<>>]
    /\ pc = "build"
    /\ \E inp \in TreeInputs :        \* pages may follow the last entry's page
          /\ entries = Some(inp[1])
          /\ doc_pages = inp[2]
    /\ pages_text = SamplePages(doc_pages)
    /\ used = "outline"
    /\ calls = <<>>
    /\ nodes = <<>>
    /\ stack = <<>>
    /\ i = 0
    /\ finalized = 0
    /\ sections = NoneList
    /\ tree_md = NoneList
    /\ outcome = "running"

NextTree ==
    \/ BuildStart
    \/ BuildStep
    \/ Finalize
    \/ FinalizeAgain
    \/ Flatten
    \/ Markdown

SpecTree == InitTree /\ [][NextTree]_vars

(* The text strategies on their own: a one-page document without bookmarks *)
InitLines ==
    /\ caller \in {"api", "cli"}
    /\ strategy \in {"auto", "toc", "headings"}
    /\ max_toc_pages = DefaultMaxTocPages(caller)
    /\ pdf \in {[toc |-> <<>>, pages |-> <<p>>] : p \in LinePages}
    /\ pc = "start"
    /\ pages_text = <<>>
    /\ doc_pages = 0
    /\ entries = NoneList
    /\ used = UsedInit(caller)
    /\ calls = <<>>
    /\ nodes = <<>>
    /\ stack = <<>>
    /\ i = 0
    /\ finalized = 0
    /\ sections = NoneList
    /\ tree_md = NoneList
    /\ outcome = "running"

SpecLines == InitLines /\ [][Next]_vars

(* The TOC strategy on long documents without bookmarks *)
InitWindow ==
    /\ caller \in {"api", "cli"}
    /\ strategy \in {"auto", "toc"}
    /\ max_toc_pages \in {1, DefaultMaxTocPages(caller)}
    /\ pdf \in {[toc |-> <<>>, pages |-> p] : p \in LongPageLists}
    /\ pc = "start"
    /\ pages_text = <<>>
    /\ doc_pages = 0
    /\ entries = NoneList
    /\ used = UsedInit(caller)
    /\ calls = <<>>
    /\ nodes = <<>>
    /\ stack = <<>>
    /\ i = 0
    /\ finalized = 0
    /\ sections = NoneList
    /\ tree_md = NoneList
    /\ outcome = "running"

SpecWindow == InitWindow /\ [][Next]_vars

----------------------------------------------------------------------------
(* What each strategy yields on the document at hand *)

OutlineResult == extract_outline(pdf)
TocPagesResult == find_toc_pages(pages_text, max_toc_pages)
TocResult ==
    IF TocPagesResult = <<>> THEN <<>>
    ELSE parse_toc_entries_from_pages(pages_text, TocPagesResult)
HeadingsResult == detect_headings(pages_text)

TocCalls ==
    IF TocPagesResult = <<>> THEN <<"find_toc_pages">>
    ELSE <<"find_toc_pages", "parse_toc_entries_from_pages">>

IsPrefix(a, b) == Len(a) <= Len(b) /\ SubSeq(b, 1, Len(a)) = a

(* the cascade has run: control is at or past the `if not entries` test *)
SelectionDone == pc \notin {"start", "outline", "toc", "headings"}
(* control is past the `if not entries` test *)
Checked == SelectionDone /\ pc # "check"

Failure == IF caller = "api" THEN "ValueError" ELSE "Exit2"
NothingBuilt == nodes = <<>> /\ sections = NoneList /\ tree_md = NoneList

----------------------------------------------------------------------------
(* C1: under strategy auto the strategies are invoked in the order outline, *)
(* TOC (find_toc_pages, then parse_toc_entries_from_pages), headings; the   *)
(* first non-empty list becomes the entries and names strategy_used, and    *)
(* nothing is invoked after it; an available outline beats an available TOC *)

AutoCalls ==
    IF Truthy(OutlineResult) THEN <<"extract_outline">>
    ELSE IF TocResult # <<>> THEN <<"extract_outline">> \o TocCalls
    ELSE <<"extract_outline">> \o TocCalls \o <<"detect_headings">>

C1_AutoPriority ==
    (strategy = "auto" /\ pc # "start") =>
        /\ IsPrefix(calls, AutoCalls)
        /\ SelectionDone =>
              /\ calls = AutoCalls
              /\ IF Truthy(OutlineResult)
                 THEN entries = OutlineResult /\ used = "outline"
                 ELSE IF TocResult # <<>>
                 THEN entries = Some(TocResult) /\ used = "toc"
                 ELSE IF HeadingsResult # <<>>
                 THEN entries = Some(HeadingsResult) /\ used = "headings"
                 ELSE entries = NoneList /\ used = UsedInit(caller)

C1_Witness ==
    /\ strategy = "auto" /\ pc = "done"
    /\ used = "outline" /\ calls = <<"extract_outline">>
    /\ TocResult # <<>> /\ HeadingsResult # <<>>

----------------------------------------------------------------------------
(* C2: under a forced strategy only that strategy's functions are ever      *)
(* invoked, and when it abstains the run fails at once, whatever the other  *)
(* strategies would have found                                              *)

OwnCalls ==
    IF strategy = "outline" THEN {"extract_outline"}
    ELSE IF strategy = "toc" THEN {"find_toc_pages", "parse_toc_entries_from_pages"}
    ELSE {"detect_headings"}

OwnResultEmpty ==
    IF strategy = "outline" THEN ~Truthy(OutlineResult)
    ELSE IF strategy = "toc" THEN TocResult = <<>>
    ELSE HeadingsResult = <<>>

C2_ForcedStrategyOnly ==
    strategy \in {"outline", "toc", "headings"} =>
        /\ Range(calls) \subseteq OwnCalls
        /\ (Checked /\ OwnResultEmpty) =>
              pc = "failed" /\ outcome = Failure /\ entries = NoneList /\ NothingBuilt

C2_Witness ==
    /\ strategy = "toc" /\ pc = "failed"
    /\ calls = <<"find_toc_pages">>
    /\ Truthy(OutlineResult) /\ HeadingsResult # <<>>

----------------------------------------------------------------------------
(* C3: the run fails (ValueError from parse_pdf, exit code 2 from the CLI)  *)
(* exactly when every strategy it attempted abstained, and a failed run has *)
(* built no tree, no sections and no rendered outline                       *)

SomeAttemptYielded ==
    \/ "extract_outline" \in Range(calls) /\ Truthy(OutlineResult)
    \/ "find_toc_pages" \in Range(calls) /\ TocResult # <<>>
    \/ "detect_headings" \in Range(calls) /\ HeadingsResult # <<>>

C3_FailsIffAllAbstain ==
    /\ Checked => (pc = "failed" <=> ~SomeAttemptYielded)
    /\ pc = "failed" => (outcome = Failure /\ NothingBuilt)
    /\ outcome \in {"ValueError", "Exit2"} => pc = "failed"
    /\ nodes # <<>> => SomeAttemptYielded

C3_Witness ==
    /\ pc = "failed" /\ strategy = "auto"
    /\ calls = <<"extract_outline", "find_toc_pages", "parse_toc_entries_from_pages",
                 "detect_headings">>
    /\ pages_text # <<>>

----------------------------------------------------------------------------
(* C4: an empty page-text sequence or a strategy outside the enumerated set *)
(* ends the run as InvalidInput: no strategy was invoked, no tree was       *)
(* built, and the failure is not the all-strategies-abstained failure       *)

InvalidInput == pages_text = <<>> \/ strategy \notin Strategies

C4_InvalidInputRejected ==
    (pc \in {"failed", "done"} /\ InvalidInput) =>
        /\ calls = <<>>
        /\ NothingBuilt
        /\ outcome \notin {"ValueError", "Exit2", "ok"}

----------------------------------------------------------------------------
(* Vocabulary of the tree claims *)

NodeIds == 1..Len(nodes)
NonRootIds == 2..Len(nodes)
ParentId(id) == CHOOSE p \in NodeIds : id \in Range(nodes[p].children)
HasChildren(p) == nodes[p].children # <<>>

(* finalize_tree has been applied *)
Finalized == finalized >= 1

(* the entry list is sorted by (page, level, title) *)
EntriesSorted ==
    \A k \in 1..(Len(entries.val) - 1) : ~KeyLess(entries.val[k + 1], entries.val[k])
(* every entry has page >= 1 *)
PagesPositive == \A k \in 1..Len(entries.val) : entries.val[k][3] >= 1
(* every entry has 1 <= page <= doc_page_count *)
PagesInDocument ==
    \A k \in 1..Len(entries.val) :
        entries.val[k][3] >= 1 /\ entries.val[k][3] <= doc_pages

----------------------------------------------------------------------------
(* C5: in the tree built from entries of level >= 1 the root has level 0,   *)
(* every other node's level is strictly greater than its parent's, and two  *)
(* entries of equal level with only deeper entries between them get the     *)
(* same parent: they are siblings, never parent and child                   *)

C5_LevelsIncrease ==
    nodes # <<>> =>
        /\ nodes[root].level = 0
        /\ \A id \in NonRootIds : nodes[id].level > nodes[ParentId(id)].level
        /\ \A j, k \in NonRootIds :
              (/\ j < k
               /\ nodes[j].level = nodes[k].level
               /\ \A m \in (j + 1)..(k - 1) : nodes[m].level > nodes[j].level)
              => (ParentId(j) = ParentId(k) /\ ParentId(k) # j)

C5_Witness ==
    /\ pc = "finalize" /\ EntriesSorted /\ Len(nodes) = 4
    /\ nodes[2].level = 1 /\ nodes[3].level = 2 /\ nodes[4].level = 2
    /\ ParentId(3) = 2 /\ ParentId(4) = 2

----------------------------------------------------------------------------
(* C6: after finalize_tree on the tree built from an entry list with       *)
(* level >= 1 and page >= 1 (here: every page a page of the document),      *)
(* every node, the root included, has start_page <= end_page                *)

RangesOrdered == \A id \in NodeIds : nodes[id].start_page.val <= nodes[id].end_page.val

C6_RangeOrdered ==
    (Finalized /\ entries.val # <<>> /\ PagesInDocument) => RangesOrdered

(* The ranges are ordered when the list is moreover sorted by               *)
(* (page, level, title)                                                     *)
RangeOrderedWhenSorted ==
    (Finalized /\ entries.val # <<>> /\ EntriesSorted /\ PagesInDocument) => RangesOrdered

----------------------------------------------------------------------------
(* C7 as claimed, on entry lists sorted by (page, level, title) with        *)
(* 1 <= page <= doc_page_count: after finalize_tree, for every node with    *)
(* children, child[i].end_page = child[i+1].start_page - 1 for every        *)
(* consecutive pair and the last child's end_page is the parent's end_page  *)

LastChildEndsWithParent ==
    \A p \in NodeIds :
        HasChildren(p) => nodes[Last(nodes[p].children)].end_page.val = nodes[p].end_page.val

C7_ChildrenContiguous ==
    (Finalized /\ EntriesSorted /\ PagesInDocument) =>
        /\ \A p \in NodeIds : \A k \in 1..(Len(nodes[p].children) - 1) :
              nodes[nodes[p].children[k]].end_page.val
                 = nodes[nodes[p].children[k + 1]].start_page.val - 1
        /\ LastChildEndsWithParent

(* C7 as amended: after finalize_tree on the tree of entries with           *)
(* page >= 1, for every consecutive pair of children                        *)
(* child[i].end_page = max(child[i].start_page, child[i+1].start_page - 1), *)
(* that is child[i+1].start_page - 1 when child[i+1] starts on a later page *)
(* and child[i].start_page when it does not; the last child's end_page is   *)
(* the parent's end_page                                                    *)

C7_ChildrenContiguousUnlessSamePage ==
    (Finalized /\ PagesPositive) =>
        /\ \A p \in NodeIds : \A k \in 1..(Len(nodes[p].children) - 1) :
              LET c == nodes[nodes[p].children[k]]
                  n == nodes[nodes[p].children[k + 1]]
              IN IF c.start_page.val < n.start_page.val
                 THEN c.end_page.val = n.start_page.val - 1
                 ELSE c.end_page.val = c.start_page.val
        /\ LastChildEndsWithParent

C7_Witness ==
    /\ Finalized /\ EntriesSorted /\ PagesInDocument /\ Len(nodes) = 4
    /\ Len(nodes[root].children) = 3
    /\ nodes[2].start_page.val = nodes[3].start_page.val
    /\ nodes[3].start_page.val < nodes[4].start_page.val

----------------------------------------------------------------------------
(* C8: after finalize_tree (entries with page >= 1, a document of at least  *)
(* one page), for every node with children each child's range lies within   *)
(* the parent's: parent.start_page <= child.start_page and                  *)
(* child.end_page <= parent.end_page                                        *)

ChildrenWithinParent ==
    \A id \in NonRootIds :
        /\ nodes[ParentId(id)].start_page.val <= nodes[id].start_page.val
        /\ nodes[id].end_page.val <= nodes[ParentId(id)].end_page.val

C8_ChildrenWithinParent ==
    (Finalized /\ PagesPositive /\ doc_pages >= 1) => ChildrenWithinParent

(* The ranges nest, and lie within [1, doc_page_count], when the list is    *)
(* sorted by (page, level, title) and every page is a page of the document  *)
ChildrenWithinParentWhenSorted ==
    (Finalized /\ EntriesSorted /\ PagesInDocument) =>
        /\ ChildrenWithinParent
        /\ \A id \in NonRootIds :
              1 <= nodes[id].start_page.val /\ nodes[id].end_page.val <= doc_pages

----------------------------------------------------------------------------
(* C9: finalize_tree applied again to a finalized tree with the same        *)
(* doc_page_count leaves every node's start_page and end_page (the whole    *)
(* tree) as the first application left them                                 *)

C9_FinalizeIdempotent ==
    [][(finalized = 1 /\ finalized' = 2) => nodes' = nodes]_vars

C9_Witness ==
    /\ finalized = 2 /\ Len(nodes) = 4
    /\ ParentId(3) = 2 /\ ParentId(4) = root
    /\ nodes[2].end_page.val # nodes[2].start_page.val

----------------------------------------------------------------------------
(* C10: flatten_sections returns one Section per non-root node and none for *)
(* the root: as many sections as non-root nodes, and every (title, level)   *)
(* pair occurs as often among the sections as among the non-root nodes      *)

NodesTitled(t, l) ==
    Cardinality({id \in NonRootIds : nodes[id].title = t /\ nodes[id].level = l})
SectionsTitled(t, l) ==
    Cardinality({k \in 1..Len(sections.val) :
                    sections.val[k].title = t /\ sections.val[k].level = l})

C10_OneSectionPerNode ==
    ~sections.is_none =>
        /\ Len(sections.val) = Len(nodes) - 1
        /\ \A id \in NonRootIds :
              SectionsTitled(nodes[id].title, nodes[id].level)
                 = NodesTitled(nodes[id].title, nodes[id].level)
        /\ \A k \in 1..Len(sections.val) :
              NodesTitled(sections.val[k].title, sections.val[k].level)
                 = SectionsTitled(sections.val[k].title, sections.val[k].level)

C10_Witness ==
    /\ ~sections.is_none /\ Len(sections.val) = 3
    /\ ParentId(3) = 2 /\ ParentId(4) = root
    /\ nodes[2].title = nodes[4].title /\ nodes[2].level = nodes[4].level

----------------------------------------------------------------------------
(* C11: the sections returned by flatten_sections are ascending by          *)
(* start_page in every pipeline run, whichever strategy supplied the        *)
(* entries: for consecutive sections s, t: s.start_page <= t.start_page     *)
(* (stated for runs whose entries all name a page of the document)          *)

SectionsAscending ==
    \A k \in 1..(Len(sections.val) - 1) :
        sections.val[k].start_page <= sections.val[k + 1].start_page

C11_SectionsAscending ==
    (~sections.is_none /\ PagesInDocument) => SectionsAscending

(* the order is ascending whenever the entry list was sorted *)
SectionsAscendingWhenSorted ==
    (~sections.is_none /\ EntriesSorted) => SectionsAscending

----------------------------------------------------------------------------
(* C12: flatten_sections raises nothing and every Section it emits has      *)
(* 1 <= start_page <= end_page <= doc_page_count, also when the node's      *)
(* range lay outside the document (stated for documents of >= 1 page)       *)

SectionsFrom(lo) ==
    \A k \in 1..Len(sections.val) :
        lo <= sections.val[k].start_page
        /\ sections.val[k].start_page <= sections.val[k].end_page
SectionsUpTo(hi) ==
    \A k \in 1..Len(sections.val) : sections.val[k].end_page <= hi

C12_SectionsClamped ==
    (~sections.is_none /\ doc_pages >= 1) => (SectionsFrom(1) /\ SectionsUpTo(doc_pages))

(* the two clamps flatten_sections does apply *)
SectionsClampedBelow == ~sections.is_none => SectionsFrom(1)

----------------------------------------------------------------------------
(* C13: a Section's id is determined by its path and its page range alone:  *)
(* two sections of one run that agree on path, start_page and end_page have *)
(* the same id, and flattening the same tree over other page texts yields   *)
(* the same ids, section by section                                         *)

(* a page-text sequence other than the run's own, four pages long *)
AltPageTexts == {<<PageBody, PageHead, PageMarker, PageToc>>}

SameKey(s, t) ==
    s.path = t.path /\ s.start_page = t.start_page /\ s.end_page = t.end_page

C13_IdFromPathAndRange ==
    ~sections.is_none =>
        /\ \A j, k \in 1..Len(sections.val) :
              SameKey(sections.val[j], sections.val[k])
                  => sections.val[j].id = sections.val[k].id
        /\ \A pg \in AltPageTexts :
              LET alt == flatten_sections(nodes, pg)
              IN /\ Len(alt) = Len(sections.val)
                 /\ \A k \in 1..Len(alt) :
                       SameKey(alt[k], sections.val[k]) /\ alt[k].id = sections.val[k].id

C13_Witness ==
    /\ ~sections.is_none /\ Len(sections.val) >= 2
    /\ SameKey(sections.val[1], sections.val[2])
    /\ sections.val[1].id = sections.val[2].id
    /\ sections.val[1].text # <<>>
    /\ \E pg \in AltPageTexts :
          flatten_sections(nodes, pg)[1].text \notin {<<>>, sections.val[1].text}

----------------------------------------------------------------------------
(* C14: in every successful pipeline run the entry list handed to           *)
(* build_tree_from_entries is sorted ascending by page, ties broken by      *)
(* level and then by title, whichever strategy produced it (stated for      *)
(* lists whose entries all name a page of the document)                     *)

(* build_tree_from_entries has been called *)
HandedToBuild == nodes # <<>>

C14_EntriesInDocumentOrder == (HandedToBuild /\ PagesInDocument) => EntriesSorted

(* the lists of the two strategies that end with a sort *)
EntriesSortedByTocAndHeadings ==
    (HandedToBuild /\ used \in {"toc", "headings"}) => EntriesSorted

----------------------------------------------------------------------------
(* C15: every entry emitted by parse_toc_entries_from_pages and by          *)
(* detect_headings has level >= 1, a non-empty title and page >= 1          *)

EntryLevelAndTitleOk(e) == e[1] >= 1 /\ e[2] # <<>>
EntryOk(e) == EntryLevelAndTitleOk(e) /\ e[3] >= 1

C15_EntriesWellFormed ==
    (~entries.is_none /\ used \in {"toc", "headings"}) =>
        \A k \in 1..Len(entries.val) : EntryOk(entries.val[k])

(* what does hold: level and title of both detectors, page of the headings *)
EntriesWellFormedButTocPage ==
    (~entries.is_none /\ used \in {"toc", "headings"}) =>
        \A k \in 1..Len(entries.val) :
            /\ EntryLevelAndTitleOk(entries.val[k])
            /\ used = "headings" => entries.val[k][3] >= 1

----------------------------------------------------------------------------
(* C16: when max_toc_pages is left at its default, find_toc_pages returns,  *)
(* in ascending order, exactly the 0-based indices i < min(page_count, 8)   *)
(* of the pages whose lowercased text contains a TOC marker, so the TOC     *)
(* strategy abstains when no page among the first 8 carries one             *)

HasTocMarker(page) ==
    \E w \in 1..Len(TOC_KEYWORDS) : Contains(Lower(page), TOC_KEYWORDS[w])

(* the 0-based indices below min(page_count, w) of the pages with a marker *)
MarkedWithin(w) ==
    {k \in 0..(Min(Len(pages_text), w) - 1) : HasTocMarker(pages_text[k + 1])}

Ascending(l) == \A k \in 1..(Len(l) - 1) : l[k] < l[k + 1]

(* the TOC strategy has run with max_toc_pages left at the caller's default *)
TocTriedByDefault ==
    /\ "find_toc_pages" \in Range(calls)
    /\ max_toc_pages = DefaultMaxTocPages(caller)

C16_DefaultWindowIsEight ==
    TocTriedByDefault =>
        /\ Range(TocPagesResult) = MarkedWithin(8) /\ Ascending(TocPagesResult)
        /\ MarkedWithin(8) = {} =>
              "parse_toc_entries_from_pages" \notin Range(calls) /\ used # "toc"

(* the window is max_toc_pages, whatever its value *)
WindowIsMaxTocPages ==
    "find_toc_pages" \in Range(calls) =>
        /\ Range(TocPagesResult) = MarkedWithin(max_toc_pages) /\ Ascending(TocPagesResult)
        /\ MarkedWithin(max_toc_pages) = {} =>
              "parse_toc_entries_from_pages" \notin Range(calls) /\ used # "toc"

(* the command line's default window is 8 *)
CliDefaultWindowIsEight ==
    (TocTriedByDefault /\ caller = "cli") =>
        Range(TocPagesResult) = MarkedWithin(8)

----------------------------------------------------------------------------
(* C17: finalize_tree computes the reference assignment: the root gets      *)
(* [1, doc_page_count], a child with a following sibling gets end_page =    *)
(* max(child.start_page, next_sibling.start_page - 1), and a last child     *)
(* gets its parent's end_page, at every depth                               *)

RootSpansDocument ==
    nodes[root].start_page = SomeInt(1) /\ nodes[root].end_page = SomeInt(doc_pages)

(* end_page of the k-th child of p, which has a following sibling *)
ChildEnd(p, k) == nodes[nodes[p].children[k]].end_page.val
ChildStart(p, k) == nodes[nodes[p].children[k]].start_page.val
(* start_page of the k-th child of p as the Optional[int] the code reads *)
ChildStartField(p, k) == nodes[nodes[p].children[k]].start_page

C17_ReferenceAssignment ==
    Finalized =>
        /\ RootSpansDocument
        /\ LastChildEndsWithParent
        /\ \A p \in NodeIds : \A k \in 1..(Len(nodes[p].children) - 1) :
              ChildEnd(p, k) = Max(ChildStart(p, k), ChildStart(p, k + 1) - 1)

(* C17 as the code computes it: a start_page of 0 counts as 1 in both       *)
(* arguments of the max, so the reference formula is met whenever every     *)
(* start page is >= 1, and the documented scenario comes out as documented  *)
ScenarioRanges ==
    entries.val = Scenario.entries /\ doc_pages = Scenario.doc_page_count =>
        /\ [k \in 1..Len(nodes) |-> <<nodes[k].start_page.val, nodes[k].end_page.val>>]
               = << <<1, 8>>, <<1, 5>>, <<2, 3>>, <<4, 5>>, <<6, 8>> >>
        /\ nodes[root].children = <<2, 5>> /\ nodes[2].children = <<3, 4>>

C17_AssignmentWithFallbacks ==
    Finalized =>
        /\ RootSpansDocument
        /\ LastChildEndsWithParent
        /\ \A p \in NodeIds : \A k \in 1..(Len(nodes[p].children) - 1) :
              /\ ChildEnd(p, k) = Max(OrInt(ChildStartField(p, k), 1),
                                      OrInt(ChildStartField(p, k + 1),
                                            OrInt(ChildStartField(p, k), 1)) - 1)
              /\ (ChildStart(p, k) >= 1 /\ ChildStart(p, k + 1) >= 1) =>
                    ChildEnd(p, k) = Max(ChildStart(p, k), ChildStart(p, k + 1) - 1)
        /\ ScenarioRanges

C17_Witness ==
    /\ Finalized /\ entries.val = Scenario.entries
    /\ nodes[2].end_page.val = 5 /\ nodes[4].end_page.val = 5 /\ nodes[5].end_page.val = 8

----------------------------------------------------------------------------
(* C18: finalize_tree changes end_page fields and the root's start_page     *)
(* only: it adds and removes no node and keeps every title, level,          *)
(* children sequence and non-root start_page; flatten_sections and          *)
(* tree_to_markdown leave the whole tree as it is                           *)

FinalizeStep == finalized' # finalized
FlattenStep == sections.is_none /\ ~sections'.is_none
MarkdownStep == tree_md.is_none /\ ~tree_md'.is_none

SameButEndPages ==
    /\ Len(nodes') = Len(nodes)
    /\ \A id \in NodeIds :
          /\ nodes'[id].title = nodes[id].title
          /\ nodes'[id].level = nodes[id].level
          /\ nodes'[id].children = nodes[id].children
          /\ id # root => nodes'[id].start_page = nodes[id].start_page

C18_NodeLifecycleFrame ==
    [][/\ FinalizeStep => SameButEndPages
       /\ (FlattenStep \/ MarkdownStep) => nodes' = nodes]_vars

C18_Witness ==
    /\ pc = "done" /\ Finalized /\ ~sections.is_none /\ ~tree_md.is_none
    /\ Len(nodes) = 4 /\ nodes[2].children = <<3>>
    /\ nodes[2].start_page.val = 0 /\ nodes[3].start_page.val = 2
    /\ nodes[2].end_page # None /\ nodes[3].end_page # None

----------------------------------------------------------------------------
(* C19: from the start of build_tree_from_entries on, at the end of every   *)
(* loop iteration over entries of level >= 1, the stack is non-empty, its   *)
(* bottom element is the root (the root is never popped), levels strictly   *)
(* increase from bottom to top, each element is the parent of the one       *)
(* above it, and the top is the node added last                             *)

StackIsPath ==
    \A k \in 1..(Len(stack) - 1) :
        /\ nodes[stack[k]].level < nodes[stack[k + 1]].level
        /\ stack[k + 1] \in Range(nodes[stack[k]].children)

C19_StackIsPathToNewest ==
    nodes # <<>> =>
        /\ stack # <<>> /\ stack[1] = root
        /\ StackIsPath
        /\ Last(stack) = Len(nodes)

C19_Witness ==
    /\ Len(nodes) = 4 /\ stack = <<root, 3, 4>>
    /\ nodes[2].level = 1 /\ nodes[3].level = 1 /\ nodes[4].level = 2

----------------------------------------------------------------------------
(* C20: build_tree_from_entries creates one node per entry, sorted list or  *)
(* not, and the depth-first pre-order sequence of (level, title,            *)
(* start_page) over the non-root nodes equals the input entry sequence;     *)
(* flatten_sections after finalize_tree returns one Section per entry, in   *)
(* the input order, with the entry's level and title                        *)

(* the ids of the descendants of node id, depth first, parents first *)
RECURSIVE PreOrder(_, _)
PreOrder(id, idx) ==
    IF idx > Len(nodes[id].children) THEN <<>>
    ELSE <<nodes[id].children[idx]>>
         \o PreOrder(nodes[id].children[idx], 1)
         \o PreOrder(id, idx + 1)

PreOrderEntries ==
    LET ids == PreOrder(root, 1)
    IN [k \in 1..Len(ids) |->
           <<nodes[ids[k]].level, nodes[ids[k]].title, nodes[ids[k]].start_page.val>>]

(* the for loop of build_tree_from_entries has ended *)
Built == nodes # <<>> /\ pc \notin {"build", "loop"}

(* the entries with title.strip() in place of title *)
StrippedEntries ==
    [k \in 1..Len(entries.val) |->
        <<entries.val[k][1], Strip(entries.val[k][2]), entries.val[k][3]>>]

SectionsFollow(es) ==
    ~sections.is_none =>
        /\ Len(sections.val) = Len(es)
        /\ \A k \in 1..Len(es) :
              sections.val[k].level = es[k][1] /\ sections.val[k].title = es[k][2]

(* every non-root node has a start_page *)
NodesPaged == \A id \in NonRootIds : ~nodes[id].start_page.is_none

C20_OrderPreserved ==
    Built =>
        /\ Len(nodes) = Len(entries.val) + 1
        /\ NodesPaged
        /\ PreOrderEntries = entries.val
        /\ SectionsFollow(entries.val)

(* C20 with the titles as build_tree_from_entries stores them: stripped of  *)
(* surrounding whitespace                                                   *)
C20_OrderPreservedUpToStrip ==
    Built =>
        /\ Len(nodes) = Len(entries.val) + 1
        /\ NodesPaged
        /\ PreOrderEntries = StrippedEntries
        /\ SectionsFollow(StrippedEntries)

C20_Witness ==
    /\ pc = "done" /\ Len(entries.val) = 3 /\ ~EntriesSorted
    /\ nodes[2].children = <<3>> /\ nodes[root].children = <<2, 4>>
    /\ entries.val[2][2] # Strip(entries.val[2][2])
    /\ Len(sections.val) = 3

====
